---------------------------- MODULE Spec2Model ----------------------------
(***************************************************************************)
(* tinyalloc: a first-fit allocator over a caller-supplied arena.          *)
(*                                                                         *)
(* The model is byte-addressed.  Memory is an array of machine words; a    *)
(* block header is four consecutive words (canary, size, prev, next) that  *)
(* live INSIDE that memory, exactly as the union allocator_header does, so *)
(* that stale headers of released blocks, headers written over old data    *)
(* and data written over old headers are all what the C code makes them.   *)
(* Sizes and addresses are size_t / uintptr_t values: every sum and        *)
(* difference is taken modulo 2^(8*WORDSIZE).                              *)
(*                                                                         *)
(* The modelled target is one whose pointers are 2 bytes (a 16-bit MCU, the *)
(* "embedded" target of the file header), which keeps the whole address    *)
(* space, and so every wrap-around, inside the model.                      *)
(***************************************************************************)
EXTENDS Integers, FiniteSets, Sequences, TLC

\* ------------------------------------------------------------------------
\* Target constants (tinyalloc.h)
\* ------------------------------------------------------------------------

\* #define WORDSIZE: the size of a pointer, in bytes.
WORDSIZE == 2

\* #define ALIGN_SIZE ((int) (WORDSIZE))
ALIGN_SIZE == WORDSIZE

\* #define HEADER_LENGHT (4 * WORDSIZE)
HEADER_LENGHT == 4 * WORDSIZE

\* #define PADDING_SIZE (ALIGN_SIZE)
PADDING_SIZE == ALIGN_SIZE

\* The NULL pointer.
NULL == 0

\* Number of values of size_t / uintptr_t: SIZE_MAX + 1.
SizeRange == 2 ^ (8 * WORDSIZE)

\* ------------------------------------------------------------------------
\* Bounds of the model
\* ------------------------------------------------------------------------

\* arena_size of the modelled arena, in bytes.
ArenaBytes == 28

\* Largest request size passed to a_malloc / a_realloc.
MaxRequest == 2

\* Number of calls the caller makes.
MaxCalls == 6

\* Number of calls the caller that keeps addresses in its blocks makes.
MaxWideCalls == 7

\* Address of the host buffer handed to the arena (arena_t.start_addr).
StartAddrs == {16}

\* Request sizes the caller draws from.
Sizes == 0 .. MaxRequest

\* Values the caller stores in the data words of its blocks.
DataVals == {4660}

\* ------------------------------------------------------------------------
\* size_t arithmetic
\* ------------------------------------------------------------------------

\* x reduced to a size_t (x may be negative, down to -SizeRange).
Wrap(x) == (x + SizeRange) % SizeRange

RECURSIVE Xor(_, _)
\* a ^ b on size_t operands.
Xor(a, b) ==
    IF a = 0 THEN b
    ELSE IF b = 0 THEN a
    ELSE (((a % 2) + (b % 2)) % 2) + (2 * Xor(a \div 2, b \div 2))

\* ------------------------------------------------------------------------
\* Memory: word-sized cells, keyed by byte address.  A cell that was never
\* written holds 0 (the host buffer is a zero-initialised static array); a
\* cell holding 0 is not kept in the function, so equal memories are equal
\* values.
\* ------------------------------------------------------------------------

Rd(m, a) == IF a \in DOMAIN m THEN m[a] ELSE 0

Wr(m, a, v) ==
    IF v = 0
    THEN [x \in (DOMAIN m) \ {a} |-> m[x]]
    ELSE [x \in (DOMAIN m) \cup {a} |-> IF x = a THEN v ELSE m[x]]

\* Field offsets of union allocator_header.
canaryAt(h) == h
sizeAt(h)   == Wrap(h + WORDSIZE)
prevAt(h)   == Wrap(h + 2 * WORDSIZE)
nextAt(h)   == Wrap(h + 3 * WORDSIZE)

hcanary(m, h) == Rd(m, canaryAt(h))
hsize(m, h)   == Rd(m, sizeAt(h))
hprev(m, h)   == Rd(m, prevAt(h))
hnext(m, h)   == Rd(m, nextAt(h))

\* ------------------------------------------------------------------------
\* Allocator helper functions (tinyalloc.c)
\* ------------------------------------------------------------------------

\* (size + (PADDING_SIZE - 1)) & ~(PADDING_SIZE - 1), on size_t.
next_padding_size(size) ==
    LET s == Wrap(size + (PADDING_SIZE - 1))
    IN  s - (s % PADDING_SIZE)

\* size ^ prev ^ next of the header as it is in memory m.
compute_canary(m, h) == Xor(Xor(hsize(m, h), hprev(m, h)), hnext(m, h))

\* header_ptr + HEADER_LENGHT + header_ptr->size
pointer_end_block(m, h) == Wrap(Wrap(h + HEADER_LENGHT) + hsize(m, h))

available_block_space(m, ar, h) ==
    IF hnext(m, h) # NULL
    THEN Wrap(hnext(m, h) - pointer_end_block(m, h))
    ELSE Wrap(Wrap(ar.start_addr + ar.arena_size) - pointer_end_block(m, h))

ptr_to_header_ptr(ptr) == Wrap(ptr - HEADER_LENGHT)

compute_block_size(padded_size) == Wrap(padded_size + HEADER_LENGHT)

header_to_dataptr(h) == Wrap(h + HEADER_LENGHT)

\* header_ptr->canary = compute_canary(header_ptr)
SetCanary(m, h) == Wr(m, canaryAt(h), compute_canary(m, h))

\* ------------------------------------------------------------------------
\* arena_init
\* ------------------------------------------------------------------------

arena_init(start, size) ==
    [start_addr |-> start, arena_size |-> size, head |-> NULL, tail |-> NULL]

\* ------------------------------------------------------------------------
\* a_malloc
\* ------------------------------------------------------------------------

\* The outcome of a call: the memory and arena it leaves, the value it
\* returns, and whether it returns at all.
Outcome(m, ar, ret) == [mem |-> m, arena |-> ar, ret |-> ret, hang |-> FALSE]
Hang(m, ar)         == [mem |-> m, arena |-> ar, ret |-> NULL, hang |-> TRUE]

RECURSIVE malloc_scan_strict(_, _, _, _, _)
\* malloc_scan with > for >=: a gap of exactly block_size bytes is passed over.
malloc_scan_strict(m, ar, actual, block_size, seen) ==
    IF hnext(m, actual) = NULL
    THEN [actual |-> actual, hang |-> FALSE]
    ELSE IF available_block_space(m, ar, actual) > block_size
    THEN [actual |-> actual, hang |-> FALSE]
    ELSE IF hnext(m, actual) \in seen \cup {actual}
    THEN [actual |-> actual, hang |-> TRUE]
    ELSE malloc_scan_strict(m, ar, hnext(m, actual), block_size,
                            seen \cup {actual})

RECURSIVE malloc_scan(_, _, _, _, _)
\* while(actual->next){ if(available_block_space(..) >= block_size) break;
\*                      actual = actual->next; }
\* The loop writes nothing, so coming back to a header it already left means
\* it never ends; the result is then NULL-tagged with hang.
malloc_scan(m, ar, actual, block_size, seen) ==
    IF hnext(m, actual) = NULL
    THEN [actual |-> actual, hang |-> FALSE]
    ELSE IF available_block_space(m, ar, actual) >= block_size
    THEN [actual |-> actual, hang |-> FALSE]
    ELSE IF hnext(m, actual) \in seen \cup {actual}
    THEN [actual |-> actual, hang |-> TRUE]
    ELSE malloc_scan(m, ar, hnext(m, actual), block_size, seen \cup {actual})

\* Lines 136-155: the free space before the first block.
malloc_leading(m, ar, padded_size) ==
    LET newblock == ar.start_addr
        m1 == Wr(m,  sizeAt(newblock), padded_size)
        m2 == Wr(m1, prevAt(newblock), NULL)
        m3 == Wr(m2, nextAt(newblock), ar.head)
        m4 == SetCanary(m3, newblock)
    IN  Outcome(m4, [ar EXCEPT !.head = newblock], header_to_dataptr(newblock))

\* The bounds test of line 184.
malloc_out_of_arena(ar, newblock, padded_size) ==
    Wrap(newblock + padded_size) > Wrap(ar.start_addr + ar.arena_size)

\* Lines 179-214: place the new block after `actual`.
malloc_after(m, ar, actual, padded_size) ==
    LET newblock == pointer_end_block(m, actual)
    IN  IF malloc_out_of_arena(ar, newblock, padded_size)
        THEN Outcome(m, ar, NULL)
        ELSE
          LET m1 == Wr(m,  sizeAt(newblock), padded_size)
              m2 == Wr(m1, prevAt(newblock), actual)
              m3 == Wr(m2, nextAt(newblock), hnext(m2, actual))
              m4 == SetCanary(m3, newblock)
              m5 == Wr(m4, nextAt(actual), newblock)
              m6 == SetCanary(m5, actual)
              next_ptr == hnext(m6, newblock)
          IN  IF next_ptr # NULL
              THEN LET m7 == Wr(m6, prevAt(next_ptr), newblock)
                       m8 == SetCanary(m7, next_ptr)
                   IN  Outcome(m8, ar, header_to_dataptr(newblock))
              ELSE Outcome(m6, [ar EXCEPT !.tail = newblock],
                           header_to_dataptr(newblock))

\* Lines 216-234: the first block of an empty arena.
malloc_first(m, ar, padded_size, block_size) ==
    IF block_size > ar.arena_size
    THEN Outcome(m, ar, NULL)
    ELSE
      LET newblock == ar.start_addr
          m1 == Wr(m,  sizeAt(newblock), padded_size)
          m2 == Wr(m1, prevAt(newblock), NULL)
          m3 == Wr(m2, nextAt(newblock), NULL)
          m4 == SetCanary(m3, newblock)
      IN  Outcome(m4, [ar EXCEPT !.head = newblock, !.tail = newblock],
                  header_to_dataptr(newblock))

a_malloc(m, ar, size) ==
    LET padded_size == next_padding_size(size)
        block_size  == compute_block_size(padded_size)
        actual      == ar.head
    IN  IF actual > ar.start_addr
           /\ Wrap(actual - ar.start_addr) >= block_size
        THEN malloc_leading(m, ar, padded_size)
        ELSE IF actual # NULL
        THEN LET found == malloc_scan(m, ar, actual, block_size, {})
             IN  IF found.hang THEN Hang(m, ar)
                 ELSE malloc_after(m, ar, found.actual, padded_size)
        ELSE malloc_first(m, ar, padded_size, block_size)

\* ------------------------------------------------------------------------
\* a_free
\* ------------------------------------------------------------------------

a_free(m, ar, ptr) ==
    IF ptr = NULL THEN Outcome(m, ar, NULL)
    ELSE
      LET header_ptr == ptr_to_header_ptr(ptr)
          \* if(header_ptr->prev) header_prev->next = header_ptr->next;
          \* else arena_ptr->head = header_ptr->next;
          hasPrev == hprev(m, header_ptr) # NULL
          m1  == IF hasPrev
                 THEN Wr(m, nextAt(hprev(m, header_ptr)), hnext(m, header_ptr))
                 ELSE m
          ar1 == IF hasPrev THEN ar
                 ELSE [ar EXCEPT !.head = hnext(m, header_ptr)]
          \* if(header_ptr->next) header_next->prev = header_ptr->prev;
          \* else arena_ptr->tail = header_ptr->prev;
          hasNext == hnext(m1, header_ptr) # NULL
          m2  == IF hasNext
                 THEN Wr(m1, prevAt(hnext(m1, header_ptr)), hprev(m1, header_ptr))
                 ELSE m1
          ar2 == IF hasNext THEN ar1
                 ELSE [ar1 EXCEPT !.tail = hprev(m1, header_ptr)]
      IN  Outcome(m2, ar2, NULL)

\* ------------------------------------------------------------------------
\* a_realloc
\* ------------------------------------------------------------------------

RECURSIVE copy_up(_, _, _, _, _)
\* Word by word, lowest address first.
copy_up(m, dst, src, i, n) ==
    IF i >= n THEN m
    ELSE copy_up(Wr(m, Wrap(dst + i), Rd(m, Wrap(src + i))),
                 dst, src, i + WORDSIZE, n)

RECURSIVE copy_down(_, _, _, _)
\* Word by word, highest address first.
copy_down(m, dst, src, n) ==
    IF n < WORDSIZE THEN m
    ELSE copy_down(Wr(m, Wrap(dst + n - WORDSIZE), Rd(m, Wrap(src + n - WORDSIZE))),
                   dst, src, n - WORDSIZE)

\* memcpy(dst, src, n): the memories it can leave.  On disjoint ranges there
\* is one; on overlapping ranges the call is undefined and the result is
\* that of either copying order.
memcpy(m, dst, src, n) == {copy_up(m, dst, src, 0, n), copy_down(m, dst, src, n)}

\* The three tests of a_realloc, on the header as it is in memory.
realloc_shrinks(m, ptr, size) ==
    next_padding_size(size) <= hsize(m, ptr_to_header_ptr(ptr))

realloc_required(m, ptr, size) ==
    Wrap(next_padding_size(size) - hsize(m, ptr_to_header_ptr(ptr)))

\* realloc_fits with > for >=: a gap of exactly the growth is refused.
realloc_fits_strict(m, ar, ptr, size) ==
    available_block_space(m, ar, ptr_to_header_ptr(ptr)) > realloc_required(m, ptr, size)

realloc_fits(m, ar, ptr, size) ==
    available_block_space(m, ar, ptr_to_header_ptr(ptr)) >= realloc_required(m, ptr, size)

\* header_ptr->size = newsize_padded; header_ptr->canary = compute_canary(..)
realloc_in_place(m, ar, ptr, newsize_padded) ==
    LET header_ptr == ptr_to_header_ptr(ptr)
        m1 == Wr(m, sizeAt(header_ptr), newsize_padded)
        m2 == SetCanary(m1, header_ptr)
    IN  Outcome(m2, ar, header_to_dataptr(header_ptr))

\* realloc_move that releases the old block before it looks at what
\* a_malloc returned.
realloc_move_frees_first(m, ar, ptr, newsize_padded) ==
    LET actual_size == hsize(m, ptr_to_header_ptr(ptr))
        new_block   == a_malloc(m, ar, newsize_padded)
    IN  IF new_block.hang THEN {Hang(m, ar)}
        ELSE IF new_block.ret = NULL
        THEN {LET freed == a_free(new_block.mem, new_block.arena, ptr)
              IN  Outcome(freed.mem, freed.arena, NULL)}
        ELSE { LET freed == a_free(mc, new_block.arena, ptr)
               IN  Outcome(freed.mem, freed.arena, new_block.ret)
               : mc \in memcpy(new_block.mem, new_block.ret, ptr, actual_size) }

\* Lines 268-286: a_malloc, memcpy, a_free.
realloc_move(m, ar, ptr, newsize_padded) ==
    LET actual_size == hsize(m, ptr_to_header_ptr(ptr))
        new_block   == a_malloc(m, ar, newsize_padded)
    IN  IF new_block.hang THEN {Hang(m, ar)}
        ELSE IF new_block.ret = NULL
        THEN {Outcome(new_block.mem, new_block.arena, NULL)}
        ELSE { LET freed == a_free(mc, new_block.arena, ptr)
               IN  Outcome(freed.mem, freed.arena, new_block.ret)
               : mc \in memcpy(new_block.mem, new_block.ret, ptr, actual_size) }

\* The outcomes of a_realloc(arena, ptr, size).
a_realloc(m, ar, ptr, size) ==
    IF ptr = NULL THEN {a_malloc(m, ar, size)}
    ELSE IF realloc_shrinks(m, ptr, size)
    THEN {realloc_in_place(m, ar, ptr, next_padding_size(size))}
    ELSE IF realloc_fits(m, ar, ptr, size)
    THEN {realloc_in_place(m, ar, ptr, next_padding_size(size))}
    ELSE realloc_move(m, ar, ptr, next_padding_size(size))

\* ------------------------------------------------------------------------
\* arena_info
\* ------------------------------------------------------------------------

\* The arena_info_t as lines 96-100 set it.
info_zero(ar) ==
    [total_size          |-> ar.arena_size,
     used_size           |-> 0,
     allocated_size      |-> 0,
     fragmentation_bytes |-> 0,
     allocated_blocks    |-> 0,
     hang                |-> FALSE]

\* info_count without the test of block->next: the space after the last
\* block is counted as fragmentation too.
info_count_tail_too(m, ar, inf, block) ==
    [inf EXCEPT
       !.allocated_size = Wrap(@ + Wrap(hsize(m, block) + HEADER_LENGHT)),
       !.allocated_blocks = Wrap(@ + 1),
       !.fragmentation_bytes = Wrap(@ + available_block_space(m, ar, block))]

\* One turn of the loop of lines 106-113 on the header block.
info_count(m, ar, inf, block) ==
    [inf EXCEPT
       !.allocated_size = Wrap(@ + Wrap(hsize(m, block) + HEADER_LENGHT)),
       !.allocated_blocks = Wrap(@ + 1),
       !.fragmentation_bytes =
           IF hnext(m, block) # NULL
           THEN Wrap(@ + available_block_space(m, ar, block))
           ELSE @]

RECURSIVE info_walk(_, _, _, _, _)
\* while(block){ ...; last = block; block = block->next; } and line 115.
\* The loop writes nothing to the list, so a header met twice means it
\* never ends.
info_walk(m, ar, inf, block, seen) ==
    LET counted == info_count(m, ar, inf, block)
    IN  IF hnext(m, block) = NULL
        THEN [counted EXCEPT
                !.used_size =
                    Wrap(Wrap(Wrap(block + HEADER_LENGHT) + hsize(m, block))
                         - ar.start_addr)]
        ELSE IF hnext(m, block) \in seen \cup {block}
        THEN [counted EXCEPT !.hang = TRUE]
        ELSE info_walk(m, ar, counted, hnext(m, block), seen \cup {block})

\* What arena_info(arena_ptr, arena_info_ptr) leaves in *arena_info_ptr.
arena_info(m, ar) ==
    IF ar.head # NULL
    THEN info_walk(m, ar, info_zero(ar), ar.head, {})
    ELSE info_zero(ar)

\* ------------------------------------------------------------------------
\* arena_lock / arena_unlock
\* ------------------------------------------------------------------------

\* The calls of the lock hook a_malloc(arena, size) makes, in order.  A scan
\* that never ends leaves the call inside its lock.
malloc_locks(m, ar, size) ==
    LET padded_size == next_padding_size(size)
        block_size  == compute_block_size(padded_size)
        actual      == ar.head
    IN  <<"lock">> \o
        (IF actual > ar.start_addr
            /\ Wrap(actual - ar.start_addr) >= block_size
         THEN <<"unlock">>
         ELSE IF actual # NULL
         THEN LET found == malloc_scan(m, ar, actual, block_size, {})
              IN  IF found.hang THEN <<>>
                  ELSE IF malloc_out_of_arena(ar,
                              pointer_end_block(m, found.actual), padded_size)
                  THEN <<"unlock">>
                  ELSE <<"unlock">>
         ELSE IF block_size > ar.arena_size THEN <<"unlock">>
         ELSE <<"unlock">>)

\* The calls of the lock hook a_free(arena, ptr) makes.
free_locks(ptr) == IF ptr = NULL THEN <<>> ELSE <<"lock", "unlock">>

\* The calls of the lock hook arena_info makes.
info_locks == <<"lock", "unlock">>

\* realloc_locks that goes into a_malloc without the arena_unlock of
\* line 271.
realloc_locks_held(m, ar, ptr, size) ==
    IF ptr = NULL THEN malloc_locks(m, ar, size)
    ELSE <<"lock">> \o
         (IF realloc_shrinks(m, ptr, size) THEN <<"unlock">>
          ELSE IF realloc_fits(m, ar, ptr, size) THEN <<"unlock">>
          ELSE LET new_block == a_malloc(m, ar, next_padding_size(size))
               IN  malloc_locks(m, ar, next_padding_size(size))
                   \o (IF new_block.ret # NULL
                       THEN <<"lock", "unlock">> \o free_locks(ptr)
                       ELSE <<>>))

\* The calls of the lock hook a_realloc(arena, ptr, size) makes, those of
\* the a_malloc and a_free it calls included.
realloc_locks(m, ar, ptr, size) ==
    IF ptr = NULL THEN malloc_locks(m, ar, size)
    ELSE <<"lock">> \o
         (IF realloc_shrinks(m, ptr, size) THEN <<"unlock">>
          ELSE IF realloc_fits(m, ar, ptr, size) THEN <<"unlock">>
          ELSE LET new_block == a_malloc(m, ar, next_padding_size(size))
               IN  <<"unlock">>
                   \o malloc_locks(m, ar, next_padding_size(size))
                   \o (IF new_block.ret # NULL
                       THEN <<"lock", "unlock">> \o free_locks(ptr)
                       ELSE <<>>))

\* ------------------------------------------------------------------------
\* The program and its caller
\* ------------------------------------------------------------------------

VARIABLES
    mem,     \* the memory: address -> word
    arena,   \* the arena_t
    live,    \* caller's pointers: returned and not yet released -> bytes asked
    last,    \* the last call: its name, arguments, result, and the size
             \* its block had before it
    calls    \* number of calls made so far

vars == <<mem, arena, live, last, calls>>

Call(op, ptr, size, ret, was) ==
    [op |-> op, ptr |-> ptr, size |-> size, ret |-> ret, was |-> was]

\* f with p mapped to v / with p removed.
Put(f, p, v) == [x \in (DOMAIN f) \cup {p} |-> IF x = p THEN v ELSE f[x]]
Drop(f, p)   == [x \in (DOMAIN f) \ {p} |-> f[x]]

Init ==
    /\ mem = <<>>
    /\ \E start \in StartAddrs : arena = arena_init(start, ArenaBytes)
    /\ live = <<>>
    /\ last = Call("init", NULL, 0, NULL, 0)
    /\ calls = 0

\* One more call, while the caller has calls left.
Tick ==
    /\ calls < MaxCalls
    /\ calls' = calls + 1

\* The bytes the caller may use at p once size bytes were granted there:
\* a pointer handed out twice stands for both grants.
Held(f, p, size) == IF p \in DOMAIN f /\ f[p] > size THEN f[p] ELSE size

\* The calls themselves, whatever the number of calls made before.
MallocCall(size) ==
    LET r == a_malloc(mem, arena, size)
    IN  /\ ~r.hang
        /\ mem' = r.mem
        /\ arena' = r.arena
        /\ live' = IF r.ret = NULL THEN live
                   ELSE Put(live, r.ret, Held(live, r.ret, size))
        /\ last' = Call("malloc", NULL, size, r.ret, 0)

FreeCall(ptr) ==
    LET r == a_free(mem, arena, ptr)
    IN  /\ mem' = r.mem
        /\ arena' = r.arena
        /\ live' = Drop(live, ptr)
        /\ last' = Call("free", ptr, 0, NULL, 0)

ReallocCall(ptr, size) ==
    \E r \in a_realloc(mem, arena, ptr, size) :
        /\ ~r.hang
        /\ mem' = r.mem
        /\ arena' = r.arena
        /\ live' = IF r.ret = NULL THEN live
                   ELSE Put(Drop(live, ptr), r.ret,
                            Held(Drop(live, ptr), r.ret, size))
        /\ last' = Call("realloc", ptr, size, r.ret,
                        IF ptr = NULL THEN 0
                        ELSE hsize(mem, ptr_to_header_ptr(ptr)))

\* The caller stores v in a word of a block it holds, inside the bytes it
\* asked for.
WriteCall(ptr, off, v) ==
    /\ off + WORDSIZE <= live[ptr]
    /\ mem' = Wr(mem, Wrap(ptr + off), v)
    /\ last' = Call("write", NULL, 0, NULL, 0)
    /\ UNCHANGED <<arena, live>>

Malloc(size) == Tick /\ MallocCall(size)

Free(ptr) == Tick /\ FreeCall(ptr)

Realloc(ptr, size) == Tick /\ ReallocCall(ptr, size)

Write(ptr, off, v) == Tick /\ WriteCall(ptr, off, v)

\* Word offsets inside a request.
Offsets == {o \in 0 .. MaxRequest : o % WORDSIZE = 0}

Next ==
    \/ \E size \in Sizes : Malloc(size)
    \/ \E ptr \in DOMAIN live \cup {NULL} : Free(ptr)
    \/ \E ptr \in DOMAIN live \cup {NULL}, size \in Sizes : Realloc(ptr, size)
    \/ \E ptr \in DOMAIN live, off \in Offsets, v \in DataVals : Write(ptr, off, v)

Spec == Init /\ [][Next]_vars

\* arena_info writes to the caller's arena_info_t only.
Info ==
    /\ Tick
    /\ ~arena_info(mem, arena).hang
    /\ last' = Call("info", NULL, 0, NULL, 0)
    /\ UNCHANGED <<mem, arena, live>>

\* The caller that also asks for the statistics, and stores no data.
NextStats ==
    \/ \E size \in Sizes : Malloc(size)
    \/ \E ptr \in DOMAIN live : Free(ptr)
    \/ \E ptr \in DOMAIN live, size \in Sizes : Realloc(ptr, size)
    \/ Info

SpecStats == Init /\ [][NextStats]_vars

\* The caller that only allocates and releases.
NextAllocFree ==
    \/ \E size \in Sizes : Malloc(size)
    \/ \E ptr \in DOMAIN live : Free(ptr)

SpecAllocFree == Init /\ [][NextAllocFree]_vars

\* The caller that asks for blocks of a header's length and keeps addresses
\* in them.
WideSizes == {0, HEADER_LENGHT}
WideOffsets == {o \in 0 .. (HEADER_LENGHT - WORDSIZE) : o % WORDSIZE = 0}

WideTick ==
    /\ calls < MaxWideCalls
    /\ calls' = calls + 1

NextWide ==
    \/ \E size \in WideSizes : WideTick /\ MallocCall(size)
    \/ \E ptr \in DOMAIN live : WideTick /\ FreeCall(ptr)
    \/ \E ptr \in DOMAIN live, size \in WideSizes :
          WideTick /\ ReallocCall(ptr, size)
    \/ \E ptr \in DOMAIN live, off \in WideOffsets, v \in StartAddrs :
          WideTick /\ WriteCall(ptr, off, v)

SpecWide == Init /\ [][NextWide]_vars

\* The caller that asks for sizes at both ends of the range of size_t.
FullSizes == {0, 1, SizeRange - 2, SizeRange - 1}

NextFull ==
    \/ \E size \in FullSizes : Malloc(size)
    \/ \E ptr \in DOMAIN live : Free(ptr)

SpecFull == Init /\ [][NextFull]_vars

\* ------------------------------------------------------------------------
\* The header list, as the claims speak of it
\* ------------------------------------------------------------------------

RECURSIVE Walk(_, _, _)
\* The headers met following next from h, in order, up to NULL or to the
\* first header met twice.
Walk(m, h, acc) ==
    IF h = NULL \/ h \in {acc[i] : i \in DOMAIN acc} THEN acc
    ELSE Walk(m, hnext(m, h), Append(acc, h))

\* The header list of memory m and arena ar / of the current state.
ListOf(m, ar) == Walk(m, ar.head, <<>>)
List == ListOf(mem, arena)
ListSet == {List[i] : i \in DOMAIN List}

\* One past the last byte of the arena / of the block at h.
ArenaEnd == arena.start_addr + arena.arena_size
BlockEnd(m, h) == h + HEADER_LENGHT + hsize(m, h)

\* The gaps of the current state in address order, each with the address it
\* starts at and its length in bytes (negative when the blocks around it
\* overlap): before the first block, between each block and its successor,
\* after the last block; the whole region when the list is empty.
Gaps ==
    IF List = <<>>
    THEN << [at |-> arena.start_addr, len |-> arena.arena_size] >>
    ELSE << [at |-> arena.start_addr, len |-> List[1] - arena.start_addr] >>
         \o [i \in 1 .. (Len(List) - 1) |->
                [at  |-> BlockEnd(mem, List[i]),
                 len |-> List[i + 1] - BlockEnd(mem, List[i])]]
         \o << [at  |-> BlockEnd(mem, List[Len(List)]),
                len |-> ArenaEnd - BlockEnd(mem, List[Len(List)])] >>

\* padded(size) + header_length
Footprint(size) == next_padding_size(size) + HEADER_LENGHT

\* The gaps a request of size bytes fits in.
Fitting(size) == {i \in DOMAIN Gaps : Gaps[i].len >= Footprint(size)}

Lowest(S) == CHOOSE i \in S : \A j \in S : i <= j

\* The gap after the block at h: to its successor, or to the region's end.
GapAfter(h) ==
    IF hnext(mem, h) # NULL
    THEN hnext(mem, h) - BlockEnd(mem, h)
    ELSE ArenaEnd - BlockEnd(mem, h)

\* Every word of memory except those at the addresses in S is unchanged
\* between m and n.
SameExcept(m, n, S) ==
    \A a \in ((DOMAIN m) \cup (DOMAIN n)) \ S : Rd(m, a) = Rd(n, a)

\* ------------------------------------------------------------------------
\* C1
\* ------------------------------------------------------------------------

\* C1: after every call, head is NULL exactly when the caller holds no
\* block, and tail is NULL exactly when the caller holds no block.
C1_HeadTailNoneIffNoLive ==
    /\ (arena.head = NULL) <=> (DOMAIN live = {})
    /\ (arena.tail = NULL) <=> (DOMAIN live = {})

\* ------------------------------------------------------------------------
\* C2
\* ------------------------------------------------------------------------

\* C2: after every call of a caller that only allocates and releases, the
\* list walked from head is in strictly increasing address order, it ends
\* (at a header whose next is NULL), and that last header is tail (tail is
\* NULL when the list is empty).
C2_ListOrderedEndsAtTail ==
    /\ \A i \in 1 .. (Len(List) - 1) : List[i] < List[i + 1]
    /\ IF List = <<>>
       THEN arena.tail = NULL
       ELSE /\ hnext(mem, List[Len(List)]) = NULL
            /\ arena.tail = List[Len(List)]

\* ------------------------------------------------------------------------
\* C3
\* ------------------------------------------------------------------------

\* C3: after every call, every header b that is the next of a header a of
\* the list has prev = a.
C3_PrevNextConsistent ==
    \A a \in ListSet :
        hnext(mem, a) # NULL => hprev(mem, hnext(mem, a)) = a

\* ------------------------------------------------------------------------
\* C4
\* ------------------------------------------------------------------------

\* C4: a call of a_malloc(size) made when no gap (leading, interior,
\* trailing, or the whole region of an empty arena) has at least
\* padded(size) + header_length bytes returns NULL and leaves head, tail
\* and the memory unchanged.
C4_NoGapReturnsNoneUnchanged ==
    [][ (last'.op = "malloc" /\ Fitting(last'.size) = {})
        => (last'.ret = NULL /\ mem' = mem /\ arena' = arena) ]_vars

\* ------------------------------------------------------------------------
\* C5
\* ------------------------------------------------------------------------

\* C5: after every call, every header of the list starts inside
\* [start_addr, start_addr + arena_size), and the footprint of a header
\* that has a successor ends at or before the successor's header.
C5_HeadersInRegionNoOverlap ==
    \A h \in ListSet :
        /\ arena.start_addr <= h
        /\ h < ArenaEnd
        /\ hnext(mem, h) # NULL => BlockEnd(mem, h) <= hnext(mem, h)

\* ------------------------------------------------------------------------
\* C6
\* ------------------------------------------------------------------------

\* C6: the pointer a call of a_malloc(0) returns is none of the pointers
\* the caller holds at the call (returned before and not yet released).
\* The claim's "returns a non-none pointer" is read as "when it returns a
\* pointer": in a full arena a_malloc(0) returns NULL, as for any size.
C6_ZeroSizePointerDistinct ==
    [][ (last'.op = "malloc" /\ last'.size = 0 /\ last'.ret # NULL)
        => last'.ret \notin DOMAIN live ]_vars

\* ------------------------------------------------------------------------
\* C7
\* ------------------------------------------------------------------------

\* C7: after every call, the canary of every header of the list is the
\* checksum of its current size, prev and next.
C7_CanaryMatches ==
    \A h \in ListSet : hcanary(mem, h) = compute_canary(mem, h)

\* ------------------------------------------------------------------------
\* C8
\* ------------------------------------------------------------------------

\* C8: a call of a_malloc(size) made when some gap has at least
\* padded(size) + header_length bytes returns the data pointer of a header
\* placed at the start of the lowest-address such gap.
C8_FirstFit ==
    [][ (last'.op = "malloc" /\ Fitting(last'.size) # {})
        => /\ last'.ret # NULL
           /\ last'.ret =
                header_to_dataptr(Gaps[Lowest(Fitting(last'.size))].at) ]_vars

\* Witness of C8: a block was placed in a gap before another block
\* although the gap after the last block fitted it too.
C8_Witness ==
    /\ last.op = "malloc"
    /\ last.ret # NULL
    /\ ptr_to_header_ptr(last.ret) \in ListSet
    /\ hnext(mem, ptr_to_header_ptr(last.ret)) # NULL
    /\ arena.tail \in ListSet
    /\ ArenaEnd - BlockEnd(mem, arena.tail) >= Footprint(last.size)

\* ------------------------------------------------------------------------
\* C9
\* ------------------------------------------------------------------------

\* The resize of the block of ptr to size has to relocate it: it is a growth
\* and a_realloc finds the gap after the block smaller than the growth.
MustRelocate(ptr, size) ==
    /\ ~realloc_shrinks(mem, ptr, size)
    /\ ~realloc_fits(mem, arena, ptr, size)

\* C9: after a successful a_realloc that had to relocate the block, the
\* first min(old size, new size) data bytes of the returned block are the
\* old block's, the old header is not in the list and the returned block's
\* header is.
C9_RelocationKeepsDataAndList ==
    [][ (/\ last'.op = "realloc"
         /\ last'.ptr # NULL
         /\ MustRelocate(last'.ptr, last'.size)
         /\ last'.ret # NULL)
        => LET old == ptr_to_header_ptr(last'.ptr)
               new == ptr_to_header_ptr(last'.ret)
               n   == IF hsize(mem, old) < last'.size
                      THEN hsize(mem, old) ELSE last'.size
               after == ListOf(mem', arena')
           IN  /\ \A off \in 0 .. (n - 1) :
                     off % WORDSIZE = 0 /\ off + WORDSIZE <= n
                     => Rd(mem', last'.ret + off) = Rd(mem, last'.ptr + off)
               /\ old \notin {after[i] : i \in DOMAIN after}
               /\ new \in {after[i] : i \in DOMAIN after} ]_vars

\* ------------------------------------------------------------------------
\* C10
\* ------------------------------------------------------------------------

\* The resize of the block of ptr to size is a shrink, or a growth that
\* the gap after the block can take.
InPlaceCase(ptr, size) ==
    LET h == ptr_to_header_ptr(ptr)
    IN  \/ next_padding_size(size) <= hsize(mem, h)
        \/ GapAfter(h) >= next_padding_size(size) - hsize(mem, h)

\* C10: a_realloc of a held pointer, when padded(size) <= the block's size
\* or the gap after the block is at least padded(size) - the block's size,
\* returns the same pointer, sets the header's size to padded(size) and
\* changes nothing but that header's size and canary.
C10_InPlaceSamePointer ==
    [][ (/\ last'.op = "realloc"
         /\ last'.ptr # NULL
         /\ InPlaceCase(last'.ptr, last'.size))
        => LET h == ptr_to_header_ptr(last'.ptr)
           IN  /\ last'.ret = last'.ptr
               /\ arena' = arena
               /\ hsize(mem', h) = next_padding_size(last'.size)
               /\ SameExcept(mem, mem', {canaryAt(h), sizeAt(h)}) ]_vars

\* Witness of C10: a block was grown in place into the whole of the gap
\* before its successor.
C10_Witness ==
    /\ last.op = "realloc"
    /\ last.ptr # NULL
    /\ last.ret = last.ptr
    /\ last.was < hsize(mem, ptr_to_header_ptr(last.ptr))
    /\ ptr_to_header_ptr(last.ptr) \in ListSet
    /\ hnext(mem, ptr_to_header_ptr(last.ptr)) # NULL
    /\ GapAfter(ptr_to_header_ptr(last.ptr)) = 0

\* ------------------------------------------------------------------------
\* C11
\* ------------------------------------------------------------------------

\* C11: a call of a_realloc on a held pointer that returns NULL leaves the
\* memory (every header's size and links, every data word) and the arena
\* (head, tail) exactly as they were before the call.
C11_FailedResizeChangesNothing ==
    [][ (last'.op = "realloc" /\ last'.ptr # NULL /\ last'.ret = NULL)
        => (mem' = mem /\ arena' = arena /\ live' = live) ]_vars

\* Witness of C11: a resize of a block of the list has failed, and the
\* block is in the list with the size it had.
C11_Witness ==
    /\ last.op = "realloc"
    /\ last.ptr # NULL
    /\ last.ret = NULL
    /\ ptr_to_header_ptr(last.ptr) \in ListSet
    /\ hsize(mem, ptr_to_header_ptr(last.ptr)) = last.was
    /\ last.ptr \in DOMAIN live

\* ------------------------------------------------------------------------
\* C12
\* ------------------------------------------------------------------------

\* The pointers of set S whose headers are highest in memory.
Highest(S) == {p \in S : \A q \in S : q <= p}

\* C12: for a call of a_free on a held pointer whose block has size s, the
\* statistics taken right after the call have allocated_blocks one less and
\* allocated_size s + header_length less than those taken right before, and
\* used_size is the end offset of the highest block the caller still holds
\* (0 when it holds none).
C12_StatsAfterRelease ==
    [][ (last'.op = "free" /\ last'.ptr # NULL)
        => LET before == arena_info(mem, arena)
               after  == arena_info(mem', arena')
               s      == hsize(mem, ptr_to_header_ptr(last'.ptr))
           IN  /\ after.allocated_blocks = before.allocated_blocks - 1
               /\ after.allocated_size =
                      before.allocated_size - (s + HEADER_LENGHT)
               /\ IF DOMAIN live' = {}
                  THEN after.used_size = 0
                  ELSE \A p \in Highest(DOMAIN live') :
                          after.used_size =
                              BlockEnd(mem', ptr_to_header_ptr(p))
                              - arena.start_addr ]_vars

\* ------------------------------------------------------------------------
\* C13
\* ------------------------------------------------------------------------

\* C13: a call of a_free on a held pointer leaves every other held block
\* that was in the list in the list, at the same address and with the same
\* size.
C13_ReleaseLeavesOthers ==
    [][ (last'.op = "free" /\ last'.ptr # NULL)
        => LET after == ListOf(mem', arena')
           IN  \A q \in (DOMAIN live) \ {last'.ptr} :
                  ptr_to_header_ptr(q) \in ListSet
                  => /\ ptr_to_header_ptr(q) \in {after[i] : i \in DOMAIN after}
                     /\ hsize(mem', ptr_to_header_ptr(q))
                          = hsize(mem, ptr_to_header_ptr(q)) ]_vars

\* ------------------------------------------------------------------------
\* C14
\* ------------------------------------------------------------------------

RECURSIVE Sum(_, _)
\* The sum of f over the set S.
Sum(f, S) ==
    IF S = {} THEN 0
    ELSE LET x == CHOOSE y \in S : TRUE IN f[x] + Sum(f, S \ {x})

\* The statistics of the current state as spec section 4.1 defines them.
Stats ==
    [total_size          |-> arena.arena_size,
     used_size           |-> IF List = <<>> THEN 0
                             ELSE BlockEnd(mem, List[Len(List)]) - arena.start_addr,
     allocated_size      |-> Sum([h \in ListSet |-> hsize(mem, h) + HEADER_LENGHT],
                                 ListSet),
     fragmentation_bytes |-> Sum([h \in ListSet |->
                                    IF hnext(mem, h) # NULL
                                    THEN hnext(mem, h) - BlockEnd(mem, h) ELSE 0],
                                 ListSet),
     allocated_blocks    |-> Len(List),
     hang                |-> FALSE]

\* C14: a call of arena_info returns total_size = arena_size,
\* allocated_blocks = the number of headers of the list, allocated_size =
\* the sum of size + header_length over the list, fragmentation_bytes = the
\* sum over the headers with a successor of successor - own end, used_size =
\* the end of the last header - start_addr (0 for an empty list), and leaves
\* the arena and the memory unchanged.
C14_StatsValues ==
    [][ last'.op = "info"
        => (arena_info(mem, arena) = Stats /\ mem' = mem /\ arena' = arena) ]_vars

\* Witness of C14: the statistics were taken of a list with a gap between
\* two blocks and free space after the last.
C14_Witness ==
    /\ last.op = "info"
    /\ Len(List) >= 2
    /\ arena_info(mem, arena).fragmentation_bytes > 0
    /\ arena_info(mem, arena).used_size < arena.arena_size

\* ------------------------------------------------------------------------
\* C15
\* ------------------------------------------------------------------------

\* The calls of the lock hook made by the call c from memory m and arena ar.
LocksOf(m, ar, c) ==
    IF c.op = "malloc" THEN malloc_locks(m, ar, c.size)
    ELSE IF c.op = "free" THEN free_locks(c.ptr)
    ELSE IF c.op = "realloc" THEN realloc_locks(m, ar, c.ptr, c.size)
    ELSE IF c.op = "info" THEN info_locks
    ELSE <<>>

\* Locks taken minus locks given back in the first i events of tr.
LockDepth(tr, i) ==
    Cardinality({j \in 1 .. i : tr[j] = "lock"})
    - Cardinality({j \in 1 .. i : tr[j] = "unlock"})

\* C15: every call of a_malloc, a_realloc, a_free and arena_info that
\* returns has made as many arena_unlock calls as arena_lock calls, and has
\* never called arena_lock while it held the lock, the a_malloc and a_free
\* calls inside a relocating a_realloc included.
C15_LockBalanced ==
    [][ \A tr \in {LocksOf(mem, arena, last')} :
           /\ LockDepth(tr, Len(tr)) = 0
           /\ \A i \in 0 .. Len(tr) : LockDepth(tr, i) \in {0, 1} ]_vars

\* Witness of C15: a relocating a_realloc has returned, after its nested
\* a_malloc and a_free.
C15_Witness ==
    /\ last.op = "realloc"
    /\ last.ptr # NULL
    /\ last.ret # NULL
    /\ last.ret # last.ptr

\* ------------------------------------------------------------------------
\* C16
\* ------------------------------------------------------------------------

\* C16: in every state reached by a_malloc, a_realloc and a_free calls on
\* held pointers, following next from head ends at a header whose next is
\* NULL, and every a_malloc and arena_info call returns.
C16_ListEnds ==
    /\ List = <<>> \/ hnext(mem, List[Len(List)]) = NULL
    /\ ~arena_info(mem, arena).hang
    /\ \A size \in WideSizes : ~a_malloc(mem, arena, size).hang

\* ------------------------------------------------------------------------
\* C17
\* ------------------------------------------------------------------------

\* The footprints of the blocks at headers h and g in memory m share no byte.
Disjoint(m, h, g) == BlockEnd(m, h) <= g \/ BlockEnd(m, g) <= h

\* C17: the block an a_malloc or a_realloc call returns is at another
\* address than, and shares no byte with, every other block the caller
\* holds.
C17_HeldDisjoint ==
    [][ (last'.op \in {"malloc", "realloc"} /\ last'.ret # NULL)
        => \A q \in (DOMAIN live) \ {last'.ptr} :
              /\ q # last'.ret
              /\ Disjoint(mem', ptr_to_header_ptr(last'.ret),
                          ptr_to_header_ptr(q)) ]_vars

\* ------------------------------------------------------------------------
\* C18
\* ------------------------------------------------------------------------

\* C18: after every call, every block of the list ends at or before the end
\* of the arena, and arena_info reports used_size <= total_size.
C18_FootprintsInRegion ==
    /\ \A h \in ListSet : BlockEnd(mem, h) <= ArenaEnd
    /\ arena_info(mem, arena).used_size <= arena_info(mem, arena).total_size

\* ------------------------------------------------------------------------
\* C19
\* ------------------------------------------------------------------------

\* The header a_malloc(size) would place its block at in the current state.
PlaceOf(size) ==
    LET block_size == compute_block_size(next_padding_size(size))
    IN  IF arena.head = NULL
           \/ (arena.head > arena.start_addr
               /\ Wrap(arena.head - arena.start_addr) >= block_size)
        THEN arena.start_addr
        ELSE pointer_end_block(mem,
                 malloc_scan(mem, arena, arena.head, block_size, {}).actual)

\* The padding, the footprint or the end address of a request of size bytes
\* exceeds the range of size_t.
Overflows(size) ==
    LET padded == (size + (PADDING_SIZE - 1))
                  - ((size + (PADDING_SIZE - 1)) % PADDING_SIZE)
    IN  \/ size + (PADDING_SIZE - 1) >= SizeRange
        \/ padded + HEADER_LENGHT >= SizeRange
        \/ PlaceOf(size) + padded >= SizeRange

\* C19: a_malloc(size) returns a pointer only to a block whose recorded size
\* is at least size, and answers a size whose padding, footprint or end
\* address overflows size_t with NULL, changing nothing.
C19_NoWrappedRequest ==
    [][ last'.op = "malloc"
        => /\ last'.ret # NULL
              => hsize(mem', ptr_to_header_ptr(last'.ret)) >= last'.size
           /\ Overflows(last'.size)
              => (last'.ret = NULL /\ mem' = mem /\ arena' = arena) ]_vars

\* ------------------------------------------------------------------------
\* Every call returns
\* ------------------------------------------------------------------------

\* The scan of a_malloc ends in every state reached: no call is left out of
\* Step for never returning.
CallsReturn ==
    \A size \in Sizes : ~a_malloc(mem, arena, size).hang

=============================================================================
